---- MODULE Spec2Model ----
(***************************************************************************)
(* Model of src/node/cli.ts of code-server: the option catalog, parse,     *)
(* setDefaults, readConfigFile, bindAddrFromAllSources and                 *)
(* shouldOpenInExistingInstance.                                           *)
(*                                                                         *)
(* A JavaScript string is a sequence of letters.  A letter is either one   *)
(* of the characters the code inspects ("-", "=", ":", "/", ".", a digit)  *)
(* or a word such as "locale" that stands for a run of characters without  *)
(* any of those; "--locale=a=b" is <<"-","-","locale","=","a","=","b">>.   *)
(***************************************************************************)
EXTENDS Integers, Sequences, FiniteSets, TLC

VARIABLES
  argv,          \* parse: the token list
  opts,          \* parse: opts.configFile, whether the tokens come from a config file
  ps,            \* parse: loop index i, record args, flag ended, thrown error
  cliArgs,       \* bindAddrFromAllSources: record parsed from the command line
  configArgs,    \* bindAddrFromAllSources: record parsed from the config file
  envPORT,       \* process.env.PORT
  addr,          \* bindAddrFromAllSources: the local addr
  bpc,           \* bindAddrFromAllSources: position
  explicitArgs,  \* shouldOpenInExistingInstance: the record of the explicit CLI tokens
  envHook,       \* process.env.VSCODE_IPC_HOOK_CLI
  ipcFile,       \* the file <tmpdir>/vscode-ipc
  ipc,           \* shouldOpenInExistingInstance: position
  socketPath,    \* shouldOpenInExistingInstance: the local socketPath
  probed,        \* canConnect was called
  reachable,     \* what canConnect answered
  result,        \* shouldOpenInExistingInstance: what the promise settled to
  dargs,         \* setDefaults: the record passed in
  envLogLevel,   \* process.env.LOG_LEVEL
  platform,      \* os.platform()
  dataDir,       \* whether paths.data exists
  oldDataDir,    \* whether ~/Library/Application Support/code-server exists
  sdpc,          \* setDefaults: position
  sdArgs,        \* setDefaults: the local copy of args, its result
  loggerLevel,   \* logger.level
  files,         \* the config files on disk, by path
  envConfig,     \* process.env.CODE_SERVER_CONFIG
  rc             \* readConfigFile: the state of each call

parseVars == <<argv, opts, ps>>

bindVars == <<cliArgs, configArgs, envPORT, addr, bpc>>

instVars ==
  <<explicitArgs, envHook, ipcFile, ipc, socketPath, probed, reachable, result>>

defVars ==
  <<dargs, envLogLevel, platform, dataDir, oldDataDir, sdpc, sdArgs, loggerLevel>>

cfgVars == <<files, envConfig, rc>>

vars == <<parseVars, bindVars, instVars, defVars, cfgVars>>

----------------------------------------------------------------------------
(* Strings *)

Digits == {"0", "1", "2", "3", "4", "5", "6", "7", "8", "9"}

DigitVal(c) ==
  CASE c = "0" -> 0 [] c = "1" -> 1 [] c = "2" -> 2 [] c = "3" -> 3
    [] c = "4" -> 4 [] c = "5" -> 5 [] c = "6" -> 6 [] c = "7" -> 7
    [] c = "8" -> 8 [] c = "9" -> 9

\* String.prototype.startsWith for a one-letter prefix
StartsWith(s, c) == Len(s) >= 1 /\ s[1] = c

\* arg.startsWith("--")
StartsWithDashDash(s) == Len(s) >= 2 /\ s[1] = "-" /\ s[2] = "-"

Tail2(s) == SubSeq(s, 3, Len(s))

\* Index of the first occurrence of letter c in s, 0 when there is none
RECURSIVE IndexFrom(_, _, _)
IndexFrom(s, c, k) ==
  IF k > Len(s) THEN 0
  ELSE IF s[k] = c THEN k
  ELSE IndexFrom(s, c, k + 1)

IndexOf(s, c) == IndexFrom(s, c, 1)

\* String.prototype.split(sep): every piece between separators
RECURSIVE Split(_, _)
Split(s, sep) ==
  LET k == IndexOf(s, sep) IN
  IF k = 0 THEN <<s>>
  ELSE <<SubSeq(s, 1, k - 1)>> \o Split(SubSeq(s, k + 1, Len(s)), sep)

\* String.prototype.split(sep, limit): the first `limit` pieces of the split,
\* the rest of the string is dropped
SplitLimit(s, sep, limit) ==
  LET all == Split(s, sep) IN
  IF Len(all) <= limit THEN all ELSE SubSeq(all, 1, limit)

\* Number.isNaN result of parseInt is modelled by the value NaN
NaN == -999999

RECURSIVE DigitPrefix(_, _, _)
DigitPrefix(s, k, acc) ==
  IF k > Len(s) \/ s[k] \notin Digits THEN <<acc, k>>
  ELSE DigitPrefix(s, k + 1, acc * 10 + DigitVal(s[k]))

\* parseInt(s, 10): optional sign, then the longest run of digits; NaN when
\* there is no digit
ParseInt(s) ==
  LET neg == StartsWith(s, "-")
      from == IF StartsWith(s, "-") \/ StartsWith(s, "+") THEN 2 ELSE 1
      r == DigitPrefix(s, from, 0)
  IN IF r[2] = from THEN NaN
     ELSE IF neg THEN 0 - r[1] ELSE r[1]

----------------------------------------------------------------------------
(* path.resolve *)

cwd == <<"/", "cwd">>

RECURSIVE Normalize(_, _)
\* Walks the segments of a path, dropping "" and ".", and popping on ".."
Normalize(segs, acc) ==
  IF segs = <<>> THEN acc
  ELSE LET h == Head(segs) IN
       IF h = <<>> \/ h = <<".">> THEN Normalize(Tail(segs), acc)
       ELSE IF h = <<".", ".">>
            THEN Normalize(Tail(segs),
                           IF acc = <<>> THEN acc
                           ELSE SubSeq(acc, 1, Len(acc) - 1))
       ELSE Normalize(Tail(segs), Append(acc, h))

RECURSIVE JoinSegs(_)
JoinSegs(segs) ==
  IF segs = <<>> THEN <<>>
  ELSE <<"/">> \o Head(segs) \o JoinSegs(Tail(segs))

PathResolve(p) ==
  LET abs == IF StartsWith(p, "/") THEN p ELSE cwd \o <<"/">> \o p
      segs == Normalize(Split(abs, "/"), <<>>)
  IN IF segs = <<>> THEN <<"/">> ELSE JoinSegs(segs)

----------------------------------------------------------------------------
(* The option catalog *)

LogLevel == {<<"trace">>, <<"debug">>, <<"info">>, <<"warn">>, <<"error">>}

AuthType == {<<"password">>, <<"none">>}

Opt(t, s, p) == [type |-> t, short |-> s, path |-> p]

NoShort == {}

options ==
  [auth |-> Opt("AuthType", NoShort, FALSE),
   password |-> Opt("string", NoShort, FALSE),
   cert |-> Opt("OptionalString", NoShort, TRUE),
   help |-> Opt("boolean", {<<"h">>}, FALSE),
   json |-> Opt("boolean", NoShort, FALSE),
   open |-> Opt("boolean", NoShort, FALSE),
   config |-> Opt("string", NoShort, FALSE),
   host |-> Opt("string", NoShort, FALSE),
   port |-> Opt("number", NoShort, FALSE),
   socket |-> Opt("string", NoShort, TRUE),
   version |-> Opt("boolean", {<<"v">>}, FALSE),
   force |-> Opt("boolean", NoShort, FALSE),
   locale |-> Opt("string", NoShort, FALSE),
   log |-> Opt("LogLevel", NoShort, FALSE),
   verbose |-> Opt("boolean", {<<"vvv">>}, FALSE),
   link |-> Opt("OptionalString", NoShort, FALSE)]
  @@
  [k \in {"cert-host", "bind-addr"} |-> Opt("string", NoShort, FALSE)]
  @@
  [k \in {"cert-key", "user-data-dir", "extensions-dir",
          "builtin-extensions-dir"} |-> Opt("string", NoShort, TRUE)]
  @@
  [k \in {"extra-extensions-dir", "extra-builtin-extensions-dir"}
     |-> Opt("string[]", NoShort, TRUE)]
  @@
  [k \in {"_", "install-extension", "enable-proposed-api", "uninstall-extension",
          "proxy-domain"} |-> Opt("string[]", NoShort, FALSE)]
  @@
  [k \in {"disable-telemetry", "list-extensions", "show-versions"}
     |-> Opt("boolean", NoShort, FALSE)]
  @@
  [k \in {"new-window"} |-> Opt("boolean", {<<"n">>}, FALSE)]
  @@
  [k \in {"reuse-window"} |-> Opt("boolean", {<<"r">>}, FALSE)]

OptionNames == DOMAIN options

\* The letters of each option name
NameChars ==
  [k \in {"auth", "password", "cert", "help", "json", "open", "config",
          "host", "port", "socket", "version", "_", "force", "locale", "log",
          "verbose", "link"} |-> <<k>>]
  @@
  [k \in {"cert-host"} |-> <<"cert", "-", "host">>] @@
  [k \in {"bind-addr"} |-> <<"bind", "-", "addr">>] @@
  [k \in {"cert-key"} |-> <<"cert", "-", "key">>] @@
  [k \in {"user-data-dir"} |-> <<"user", "-", "data", "-", "dir">>] @@
  [k \in {"extensions-dir"} |-> <<"extensions", "-", "dir">>] @@
  [k \in {"builtin-extensions-dir"}
     |-> <<"builtin", "-", "extensions", "-", "dir">>] @@
  [k \in {"extra-extensions-dir"}
     |-> <<"extra", "-", "extensions", "-", "dir">>] @@
  [k \in {"extra-builtin-extensions-dir"}
     |-> <<"extra", "-", "builtin", "-", "extensions", "-", "dir">>] @@
  [k \in {"install-extension"} |-> <<"install", "-", "extension">>] @@
  [k \in {"enable-proposed-api"} |-> <<"enable", "-", "proposed", "-", "api">>] @@
  [k \in {"uninstall-extension"} |-> <<"uninstall", "-", "extension">>] @@
  [k \in {"proxy-domain"} |-> <<"proxy", "-", "domain">>] @@
  [k \in {"disable-telemetry"} |-> <<"disable", "-", "telemetry">>] @@
  [k \in {"list-extensions"} |-> <<"list", "-", "extensions">>] @@
  [k \in {"show-versions"} |-> <<"show", "-", "versions">>] @@
  [k \in {"new-window"} |-> <<"new", "-", "window">>] @@
  [k \in {"reuse-window"} |-> <<"reuse", "-", "window">>]

\* options[key] for a long flag: the option names spelled `chars`
LongKey(chars) == {k \in OptionNames : NameChars[k] = chars}

\* Object.entries(options).find(([, v]) => v.short === short)
ShortKey(short) == {k \in OptionNames : short \in options[k].short}

----------------------------------------------------------------------------
(* parse *)

\* An undefined string, and a defined one
Undef == [def |-> FALSE, s |-> <<>>]

Def(s) == [def |-> TRUE, s |-> s]

\* !value : undefined or the empty string
Falsy(v) == ~v.def \/ v.s = <<>>

\* new OptionalString(value)
OptionalString(v) == [has |-> v.def, value |-> v.s]

\* const args: Args = { _: [] }; let ended = false; i = 0
InitParse == [i |-> 1, args |-> [k \in {"_"} |-> <<>>], ended |-> FALSE,
              err |-> "none"]

\* args[key] = v
Put(args, key, v) == [k \in (DOMAIN args) \cup {key} |->
                        IF k = key THEN v ELSE args[k]]

\* The key and the inline value of the token: split at "=" into at most two
\* pieces for a long flag, the short-flag lookup otherwise
KeyValue(arg) ==
  IF StartsWithDashDash(arg)
  THEN LET split == SplitLimit(Tail2(arg), "=", 2) IN
       [key |-> IF split[1] = <<>> THEN {} ELSE LongKey(split[1]),
        value |-> IF Len(split) >= 2 THEN Def(split[2]) ELSE Undef]
  ELSE [key |-> ShortKey(Tail(arg)), value |-> Undef]

\* argv[i + 1] && !argv[i + 1].startsWith("-")
TakesNext(argv_, i) ==
  /\ i + 1 <= Len(argv_)
  /\ argv_[i + 1] # <<>>
  /\ ~StartsWith(argv_[i + 1], "-")

\* The switch on option.type: coerces and stores a non-empty value
Store(st, key, value) ==
  LET t == options[key].type IN
  CASE t = "string" -> [st EXCEPT !.args = Put(@, key, value)]
    [] t = "string[]" ->
         [st EXCEPT !.args = Put(@, key,
            Append(IF key \in DOMAIN @ THEN @[key] ELSE <<>>, value))]
    [] t = "number" ->
         IF ParseInt(value) = NaN
         THEN [st EXCEPT !.args = Put(@, key, NaN), !.err = "nan"]
         ELSE [st EXCEPT !.args = Put(@, key, ParseInt(value))]
    [] t = "OptionalString" ->
         [st EXCEPT !.args = Put(@, key, OptionalString(Def(value)))]
    [] t = "LogLevel" ->
         IF value \notin LogLevel THEN [st EXCEPT !.err = "enum"]
         ELSE [st EXCEPT !.args = Put(@, key, value)]
    [] t = "AuthType" ->
         IF value \notin AuthType THEN [st EXCEPT !.err = "enum"]
         ELSE [st EXCEPT !.args = Put(@, key, value)]

\* The body of `if (!ended && arg.startsWith("-"))`
OptionStep(argv_, o, st) ==
  LET arg == argv_[st.i]
      kv == KeyValue(arg)
  IN
  IF kv.key = {} THEN [st EXCEPT !.err = "unknown"]
  ELSE
  LET key == CHOOSE k \in kv.key : TRUE
      option == options[key]
  IN
  IF key = "password" /\ ~o.configFile THEN [st EXCEPT !.err = "restricted"]
  ELSE IF option.type = "boolean"
  THEN [st EXCEPT !.args = Put(@, key, TRUE), !.i = @ + 1]
  ELSE
  LET take == ~kv.value.def /\ TakesNext(argv_, st.i)
      value == IF kv.value.def THEN kv.value
               ELSE IF take THEN Def(argv_[st.i + 1]) ELSE Undef
      i2 == IF take THEN st.i + 1 ELSE st.i
  IN
  IF Falsy(value) /\ option.type = "OptionalString"
  THEN [st EXCEPT !.args = Put(@, key, OptionalString(value)), !.i = i2 + 1]
  ELSE IF Falsy(value) THEN [st EXCEPT !.err = "missing", !.i = i2]
  ELSE IF option.type = "OptionalString" /\ value.s = <<"false">>
  THEN [st EXCEPT !.i = i2 + 1]
  ELSE
  LET v == IF option.path THEN PathResolve(value.s) ELSE value.s
      st2 == Store(st, key, v)
  IN IF st2.err # "none" THEN [st2 EXCEPT !.i = i2]
     ELSE [st2 EXCEPT !.i = i2 + 1]

\* IsSeparator without the test of `ended`
IsSeparatorAnywhere(argv_, st) == argv_[st.i] = <<"-", "-">>

\* if (!ended && arg === "--")
IsSeparator(argv_, st) == ~st.ended /\ argv_[st.i] = <<"-", "-">>

\* if (!ended && arg.startsWith("-"))
IsOption(argv_, st) ==
  ~st.ended /\ ~IsSeparator(argv_, st) /\ StartsWith(argv_[st.i], "-")

\* One iteration of the loop over argv
Iter(argv_, o, st) ==
  IF IsSeparator(argv_, st) THEN [st EXCEPT !.ended = TRUE, !.i = @ + 1]
  ELSE IF IsOption(argv_, st) THEN OptionStep(argv_, o, st)
  ELSE [st EXCEPT !.args = Put(@, "_", Append(@["_"], argv_[st.i])),
                  !.i = @ + 1]

\* The loop has run to its end or an error was thrown
Finished(argv_, st) == st.err # "none" \/ st.i > Len(argv_)

RECURSIVE Run(_, _, _)
Run(argv_, o, st) ==
  IF Finished(argv_, st) THEN st ELSE Run(argv_, o, Iter(argv_, o, st))

\* parse(argv, opts): the final parser state; the record is .args when .err
\* is "none"
parse(argv_, o) == Run(argv_, o, InitParse)

----------------------------------------------------------------------------
(* The parts of the state a specification does not use stay as follows *)

NoArgs == [k \in {"_"} |-> <<>>]

ParseIdle ==
  /\ argv = <<>>
  /\ opts = [configFile |-> FALSE]
  /\ ps = InitParse

BindIdle ==
  /\ cliArgs = NoArgs
  /\ configArgs = NoArgs
  /\ envPORT = Undef
  /\ addr = [host |-> <<"localhost">>, port |-> 8080]
  /\ bpc = "config"

Pending == [kind |-> "pending", s |-> <<>>]

InstIdle ==
  /\ explicitArgs = NoArgs
  /\ envHook = Undef
  /\ ipcFile = [kind |-> "ENOENT", s |-> <<>>]
  /\ ipc = "start"
  /\ socketPath = Undef
  /\ probed = FALSE
  /\ reachable = "none"
  /\ result = Pending

DefIdle ==
  /\ dargs = NoArgs
  /\ envLogLevel = Undef
  /\ platform = "linux"
  /\ dataDir = FALSE
  /\ oldDataDir = FALSE
  /\ sdpc = "start"
  /\ sdArgs = NoArgs
  /\ loggerLevel = "Info"

CfgIdle ==
  /\ files = <<>>
  /\ envConfig = Undef
  /\ rc = <<>>

----------------------------------------------------------------------------
(* Parsing a token list: one action per branch of the loop body *)

MaxArgs == 3

Long(name) == <<"-", "-">> \o NameChars[name]

LongEq(name, v) == Long(name) \o <<"=">> \o v

Tokens ==
  { <<"-", "-">>, Long("verbose"), <<"-", "v">>, Long("locale"),
    LongEq("locale", <<"a", "=", "b">>), Long("cert"),
    LongEq("cert-host", <<"x">>), LongEq("port", <<"1", "2">>),
    <<"a", "=", "b">>, <<"foo">>, <<>>, <<"-", "-", "bogus">>,
    Long("install-extension"), LongEq("verbose", <<"false">>),
    LongEq("cert", <<"false">>), LongEq("password", <<"x">>),
    LongEq("log", <<"debug">>) }

SeqsUpTo(S, n) == UNION {[1..k -> S] : k \in 0..n}

ParseInit ==
  /\ argv \in SeqsUpTo(Tokens, MaxArgs)
  /\ opts \in {[configFile |-> TRUE], [configFile |-> FALSE]}
  /\ ps = InitParse
  /\ BindIdle /\ InstIdle /\ DefIdle /\ CfgIdle

ParseSeparator ==
  /\ ~Finished(argv, ps)
  /\ IsSeparator(argv, ps)
  /\ ps' = Iter(argv, opts, ps)
  /\ UNCHANGED <<argv, opts, bindVars, instVars, defVars, cfgVars>>

ParseOption ==
  /\ ~Finished(argv, ps)
  /\ IsOption(argv, ps)
  /\ ps' = Iter(argv, opts, ps)
  /\ UNCHANGED <<argv, opts, bindVars, instVars, defVars, cfgVars>>

ParsePositional ==
  /\ ~Finished(argv, ps)
  /\ ~IsSeparator(argv, ps)
  /\ ~IsOption(argv, ps)
  /\ ps' = Iter(argv, opts, ps)
  /\ UNCHANGED <<argv, opts, bindVars, instVars, defVars, cfgVars>>

ParseNext == ParseSeparator \/ ParseOption \/ ParsePositional

SpecParse == ParseInit /\ [][ParseNext]_vars

\* parse returned a record
Accepted == Finished(argv, ps) /\ ps.err = "none"

----------------------------------------------------------------------------
(* Properties of parse *)

\* The text of a long flag between "--" and its first "="
KeyText(arg) ==
  LET body == Tail2(arg)
      k == IndexOf(body, "=")
  IN IF k = 0 THEN body ELSE SubSeq(body, 1, k - 1)

\* The whole remainder of a long flag after its first "="
Remainder(arg) ==
  LET body == Tail2(arg)
      k == IndexOf(body, "=")
  IN SubSeq(body, k + 1, Len(body))

HasInline(arg) == StartsWithDashDash(arg) /\ IndexOf(Tail2(arg), "=") > 0

\* The string an option holds (the last element for a list)
Held(args, key) ==
  LET t == options[key].type IN
  CASE t = "string[]" -> args[key][Len(args[key])]
    [] t = "OptionalString" -> args[key].value
    [] OTHER -> args[key]

\* The step parses the long flag `--key=value` of a string-valued option
\* and stores a value
StoresInline(key) ==
  /\ ParseOption
  /\ HasInline(argv[ps.i])
  /\ NameChars[key] = KeyText(argv[ps.i])
  /\ options[key].type \in {"string", "string[]", "OptionalString"}
  /\ ps'.err = "none"
  /\ Remainder(argv[ps.i]) \notin {<<>>, <<"false">>}

\* C8: a long flag is split at its first "=" only: the key is the text before
\* it and the stored value is the entire remainder of the token after it, so
\* a value that contains "=" is stored in full.
C8_ValueKeptInFull ==
  [][\A key \in OptionNames :
       StoresInline(key) =>
         /\ key \in DOMAIN ps'.args
         /\ Held(ps'.args, key) =
              IF options[key].path THEN PathResolve(Remainder(argv[ps.i]))
              ELSE Remainder(argv[ps.i])]_vars

\* Number.prototype.toString for an integer
RECURSIVE NatToStr(_)
NatToStr(n) ==
  LET d == CHOOSE c \in Digits : DigitVal(c) = n % 10 IN
  IF n < 10 THEN <<d>> ELSE Append(NatToStr(n \div 10), d)

NumToStr(n) == IF n < 0 THEN <<"-">> \o NatToStr(0 - n) ELSE NatToStr(n)

RECURSIVE SetToSeq(_)
SetToSeq(S) ==
  IF S = {} THEN <<>>
  ELSE LET x == CHOOSE y \in S : TRUE IN <<x>> \o SetToSeq(S \ {x})

RECURSIVE Flatten(_)
Flatten(ss) == IF ss = <<>> THEN <<>> ELSE Head(ss) \o Flatten(Tail(ss))

\* The tokens of one option of a record: `--key` for a Boolean or an
\* OptionalString without payload, `--key=value` for a value and for each
\* element of a list
SerializeKey(args, key) ==
  LET t == options[key].type IN
  CASE t = "boolean" -> <<Long(key)>>
    [] t = "OptionalString" ->
         IF args[key].has THEN <<LongEq(key, args[key].value)>>
         ELSE <<Long(key)>>
    [] t = "number" -> <<LongEq(key, NumToStr(args[key]))>>
    [] t = "string[]" ->
         [j \in 1..Len(args[key]) |-> LongEq(key, args[key][j])]
    [] OTHER -> <<LongEq(key, args[key])>>

\* A record as tokens: its options, then "--" and its positionals
Serialize(args) ==
  LET keys == SetToSeq(DOMAIN args \ {"_"}) IN
  Flatten([j \in 1..Len(keys) |-> SerializeKey(args, keys[j])])
    \o (IF args["_"] = <<>> THEN <<>> ELSE <<<<"-", "-">>>> \o args["_"])

\* C4: round trip: the record of an accepted token list, serialized and
\* parsed again in config-file context, is the same record.
C4_RoundTrip ==
  (Accepted /\ opts.configFile) =>
     LET again == parse(Serialize(ps.args), opts) IN
     again.err = "none" /\ again.args = ps.args

\* The first index of the token "--" in argv, 0 when there is none
FirstSeparator == IndexOf(argv, <<"-", "-">>)

\* C6: the first token "--" is not emitted and switches to positional-only
\* mode: the options are those of the tokens before it, and every token after
\* it is appended unchanged and in order to `_`, raising no error.
C6_SeparatorEndsOptions ==
  ps.ended =>
    LET k == FirstSeparator
        before == parse(SubSeq(argv, 1, k - 1), opts)
    IN /\ 0 < k /\ k < ps.i
       /\ ps.err = "none" /\ before.err = "none"
       /\ ps.args = [before.args EXCEPT
                       !["_"] = @ \o SubSeq(argv, k + 1, ps.i - 1)]

\* C6 witness: parse returned after a separator that was followed by an
\* unknown flag and by a second "--"
C6_Witness ==
  /\ Accepted /\ ps.ended
  /\ \E j \in FirstSeparator + 1 .. Len(argv) : argv[j] = <<"-", "-">>
  /\ \E j \in FirstSeparator + 1 .. Len(argv) : argv[j] = <<"-", "-", "bogus">>

\* The step handles a known, permitted non-Boolean option written without
\* an inline value
ValueLess(key) ==
  /\ ParseOption
  /\ ~HasInline(argv[ps.i])
  /\ key \in KeyValue(argv[ps.i]).key
  /\ options[key].type # "boolean"
  /\ ~(key = "password" /\ ~opts.configFile)

----------------------------------------------------------------------------
(* bindAddrFromAllSources *)

\* Index of the last occurrence of letter c in s, 0 when there is none
RECURSIVE LastIndexFrom(_, _, _)
LastIndexFrom(s, c, k) ==
  IF k = 0 THEN 0
  ELSE IF s[k] = c THEN k
  ELSE LastIndexFrom(s, c, k - 1)

AllDigits(s) == \A j \in 1..Len(s) : s[j] \in Digits

\* new URL(`http://${bindAddr}`): hostname and port of the authority, which
\* ends at the first "/"; the constructor throws on an empty host and on a
\* port that is not a number up to 65535.  u.port is "" for no port and for
\* the scheme's default port 80, and both give 80.
parseBindAddr(bindAddr) ==
  LET slash == IndexOf(bindAddr, "/")
      authority == IF slash = 0 THEN bindAddr
                   ELSE SubSeq(bindAddr, 1, slash - 1)
      colon == LastIndexFrom(authority, ":", Len(authority))
      hostname == IF colon = 0 THEN authority
                  ELSE SubSeq(authority, 1, colon - 1)
      port == IF colon = 0 THEN <<>>
              ELSE SubSeq(authority, colon + 1, Len(authority))
  IN IF hostname = <<>> \/ ~AllDigits(port) THEN [ok |-> FALSE]
     ELSE IF port # <<>> /\ ParseInt(port) > 65535 THEN [ok |-> FALSE]
     ELSE [ok |-> TRUE, host |-> hostname,
           port |-> IF port = <<>> THEN 80 ELSE ParseInt(port)]

\* bindAddrFromArgs with the PORT block moved after the args.port block
bindAddrFromArgsEnvLast(a, args, env) ==
  LET hasBind == "bind-addr" \in DOMAIN args /\ args["bind-addr"] # <<>>
      pb == IF hasBind THEN parseBindAddr(args["bind-addr"]) ELSE [ok |-> TRUE]
      a1 == IF hasBind /\ pb.ok THEN [host |-> pb.host, port |-> pb.port] ELSE a
      a2 == IF "host" \in DOMAIN args /\ args["host"] # <<>>
            THEN [a1 EXCEPT !.host = args["host"]] ELSE a1
      a3 == IF "port" \in DOMAIN args THEN [a2 EXCEPT !.port = args["port"]]
            ELSE a2
      a4 == IF ~Falsy(env) THEN [a3 EXCEPT !.port = ParseInt(env.s)] ELSE a3
  IN [ok |-> pb.ok, addr |-> a4]

\* bindAddrFromArgs(addr, args) with process.env.PORT = env: the new addr,
\* or ok = FALSE when parseBindAddr throws
bindAddrFromArgs(a, args, env) ==
  LET hasBind == "bind-addr" \in DOMAIN args /\ args["bind-addr"] # <<>>
      pb == IF hasBind THEN parseBindAddr(args["bind-addr"]) ELSE [ok |-> TRUE]
      a1 == IF hasBind /\ pb.ok THEN [host |-> pb.host, port |-> pb.port] ELSE a
      a2 == IF "host" \in DOMAIN args /\ args["host"] # <<>>
            THEN [a1 EXCEPT !.host = args["host"]] ELSE a1
      a3 == IF ~Falsy(env) THEN [a2 EXCEPT !.port = ParseInt(env.s)] ELSE a2
      a4 == IF "port" \in DOMAIN args THEN [a3 EXCEPT !.port = args["port"]]
            ELSE a3
  IN [ok |-> pb.ok, addr |-> a4]

MaxBindArgs == 2

BindTokens ==
  { LongEq("bind-addr", <<"0.0.0.0", ":", "9", "0", "0", "0">>),
    LongEq("bind-addr", <<"example.com">>),
    LongEq("bind-addr", <<"h", ":", "x">>),
    LongEq("host", <<"h">>),
    LongEq("port", <<"9", "9", "9", "9">>),
    LongEq("port", <<"0">>) }

\* The records parse returns for the token lists over a set of tokens
Records(tokens, n, o) ==
  {parse(t, o).args : t \in {u \in SeqsUpTo(tokens, n) : parse(u, o).err = "none"}}

PortValues == {Undef, Def(<<>>), Def(<<"7", "7", "7", "7">>), Def(<<"0">>)}

BindInit ==
  /\ cliArgs \in Records(BindTokens, MaxBindArgs, [configFile |-> FALSE])
  /\ configArgs \in Records(BindTokens, MaxBindArgs, [configFile |-> TRUE])
  /\ envPORT \in PortValues
  /\ addr = [host |-> <<"localhost">>, port |-> 8080]
  /\ bpc = "config"
  /\ ParseIdle /\ InstIdle /\ DefIdle /\ CfgIdle

\* addr = bindAddrFromArgs(addr, configArgs)
BindFromConfig ==
  /\ bpc = "config"
  /\ LET r == bindAddrFromArgs(addr, configArgs, envPORT) IN
       /\ addr' = r.addr
       /\ bpc' = IF r.ok THEN "cli" ELSE "error"
  /\ UNCHANGED <<cliArgs, configArgs, envPORT, parseVars, instVars, defVars, cfgVars>>

\* addr = bindAddrFromArgs(addr, cliArgs); return [addr.host, addr.port]
BindFromCli ==
  /\ bpc = "cli"
  /\ LET r == bindAddrFromArgs(addr, cliArgs, envPORT) IN
       /\ addr' = r.addr
       /\ bpc' = IF r.ok THEN "done" ELSE "error"
  /\ UNCHANGED <<cliArgs, configArgs, envPORT, parseVars, instVars, defVars, cfgVars>>

BindNext == BindFromConfig \/ BindFromCli

SpecBind == BindInit /\ [][BindNext]_vars

\* The host the two records give: the CLI record's host, else its bind-addr,
\* else the config record's host, else its bind-addr, else "localhost"
HostOf(args, otherwise) ==
  IF "host" \in DOMAIN args THEN args["host"]
  ELSE IF "bind-addr" \in DOMAIN args
       THEN parseBindAddr(args["bind-addr"]).host
  ELSE otherwise

----------------------------------------------------------------------------
(* shouldOpenInExistingInstance *)

Value(s) == [kind |-> "value", s |-> s]

Undefined == [kind |-> "undefined", s |-> <<>>]

Thrown == [kind |-> "error", s |-> <<>>]

\* readSocketPath(): the content of the file, undefined for ENOENT, and any
\* other read error is thrown again
readSocketPath(file) ==
  CASE file.kind = "file" -> Value(file.s)
    [] file.kind = "ENOENT" -> Undefined
    [] OTHER -> Thrown

\* openInFlagCount counting reuse-window only
openInFlagCountReuseOnly(args) ==
  Cardinality({cur \in {"reuse-window"} :
                 cur \in DOMAIN args /\ args[cur] = TRUE})

\* The reduce over ["reuse-window", "new-window"]
openInFlagCount(args) ==
  Cardinality({cur \in {"reuse-window", "new-window"} :
                 cur \in DOMAIN args /\ args[cur] = TRUE})

\* OnlyPositionals without the test on the number of keys
OnlyPositionalsAnyKeys(args) == Len(args["_"]) > 0

\* Object.keys(args).length === 1 && args._.length > 0
OnlyPositionals(args) ==
  Cardinality(DOMAIN args) = 1 /\ Len(args["_"]) > 0

MaxInstArgs == 2

InstTokens ==
  { <<"foo.txt">>, <<"-", "r">>, <<"-", "n">>, Long("verbose"), <<"-", "-">> }

HookValues == {Undef, Def(<<>>), Def(<<"/", "hook">>)}

IpcFiles ==
  { [kind |-> "ENOENT", s |-> <<>>], [kind |-> "EACCES", s |-> <<>>],
    [kind |-> "file", s |-> <<>>], [kind |-> "file", s |-> <<"/", "sock">>] }

InstInit ==
  /\ explicitArgs \in Records(InstTokens, MaxInstArgs, [configFile |-> FALSE])
  /\ envHook \in HookValues
  /\ ipcFile \in IpcFiles
  /\ ipc = "start"
  /\ socketPath = Undef
  /\ probed = FALSE
  /\ reachable = "none"
  /\ result = Pending
  /\ ParseIdle /\ BindIdle /\ DefIdle /\ CfgIdle

\* The call up to its first await: the environment variable, the two flags,
\* and the test for a record holding only positionals
InstBegin ==
  /\ ipc = "start"
  /\ IF ~Falsy(envHook)
     THEN ipc' = "done" /\ result' = Value(envHook.s)
     ELSE IF openInFlagCount(explicitArgs) > 0
     THEN ipc' = "readForFlag" /\ result' = result
     ELSE IF OnlyPositionals(explicitArgs)
     THEN ipc' = "readForProbe" /\ result' = result
     ELSE ipc' = "done" /\ result' = Undefined
  /\ UNCHANGED <<explicitArgs, envHook, ipcFile, socketPath, probed, reachable,
                 parseVars, bindVars, defVars, cfgVars>>

\* return readSocketPath()
InstReadForFlag ==
  /\ ipc = "readForFlag"
  /\ ipc' = "done"
  /\ result' = readSocketPath(ipcFile)
  /\ UNCHANGED <<explicitArgs, envHook, ipcFile, socketPath, probed, reachable,
                 parseVars, bindVars, defVars, cfgVars>>

\* const socketPath = await readSocketPath(), then canConnect is called when
\* socketPath is truthy
InstReadForProbe ==
  /\ ipc = "readForProbe"
  /\ LET r == readSocketPath(ipcFile) IN
       IF r.kind = "error"
       THEN ipc' = "done" /\ result' = Thrown /\ UNCHANGED <<socketPath, probed>>
       ELSE /\ socketPath' = IF r.kind = "value" THEN Def(r.s) ELSE Undef
            /\ IF r.kind = "value" /\ r.s # <<>>
               THEN ipc' = "probe" /\ probed' = TRUE /\ result' = result
               ELSE ipc' = "done" /\ probed' = probed /\ result' = Undefined
  /\ UNCHANGED <<explicitArgs, envHook, ipcFile, reachable, parseVars, bindVars, defVars, cfgVars>>

\* await canConnect(socketPath) settles
InstProbe ==
  /\ ipc = "probe"
  /\ \E ok \in BOOLEAN :
       /\ reachable' = IF ok THEN "yes" ELSE "no"
       /\ result' = IF ok THEN Value(socketPath.s) ELSE Undefined
  /\ ipc' = "done"
  /\ UNCHANGED <<explicitArgs, envHook, ipcFile, socketPath, probed,
                 parseVars, bindVars, defVars, cfgVars>>

InstNext == InstBegin \/ InstReadForFlag \/ InstReadForProbe \/ InstProbe

SpecInst == InstInit /\ [][InstNext]_vars

NoOpenInFlag ==
  /\ "reuse-window" \notin DOMAIN explicitArgs
  /\ "new-window" \notin DOMAIN explicitArgs

\* The record has no key but `_`, and `_` is not empty
JustPaths == DOMAIN explicitArgs = {"_"} /\ explicitArgs["_"] # <<>>

HasReference == ipcFile.kind = "file" /\ ipcFile.s # <<>>

\* C2 as stated: without the environment variable and without the two flags,
\* the result is the reference iff the record is just a non-empty `_`, the
\* file holds a non-empty reference and the probe succeeds; in every other
\* case it is undefined; the probe is attempted only for a record that is
\* just a non-empty `_` and after a reference was read.
C2_ProbeOrNothing ==
  (Falsy(envHook) /\ NoOpenInFlag) =>
    /\ probed => (JustPaths /\ HasReference)
    /\ ipc = "done" =>
         IF JustPaths /\ HasReference /\ reachable = "yes"
         THEN result = Value(ipcFile.s)
         ELSE result = Undefined

\* C2 amended: as stated, except that for a record that is just a non-empty
\* `_` a failure to read the file other than "file not found" propagates as
\* an error.
C2_ProbeOrNothingOrReadError ==
  (Falsy(envHook) /\ NoOpenInFlag) =>
    /\ probed => (JustPaths /\ HasReference)
    /\ ipc = "done" =>
         IF JustPaths /\ HasReference /\ reachable = "yes"
         THEN result = Value(ipcFile.s)
         ELSE IF JustPaths /\ ipcFile.kind = "EACCES"
         THEN result = Thrown
         ELSE result = Undefined

\* C2 witness: a record that is just a path, a reference read and a probe
\* that failed: no redirection
C2_Witness ==
  /\ Falsy(envHook) /\ NoOpenInFlag /\ JustPaths
  /\ ipc = "done" /\ probed /\ reachable = "no"
  /\ result = Undefined

\* C3: without the environment variable and with reuse-window or new-window
\* set, no probe is ever made, and the result is the content of the file,
\* undefined when the file does not exist, and the error of any other read
\* failure, whatever else the record holds.
C3_FlagReturnsReference ==
  (Falsy(envHook) /\ ~NoOpenInFlag) =>
    /\ ~probed /\ reachable = "none" /\ ipc # "probe"
    /\ ipc = "done" =>
         result = CASE ipcFile.kind = "file" -> Value(ipcFile.s)
                    [] ipcFile.kind = "ENOENT" -> Undefined
                    [] OTHER -> Thrown

\* C3 witness: reuse-window together with another option, and the reference
\* returned unprobed
C3_Witness ==
  /\ Falsy(envHook)
  /\ "reuse-window" \in DOMAIN explicitArgs
  /\ "verbose" \in DOMAIN explicitArgs
  /\ ipc = "done" /\ ~probed
  /\ result = Value(<<"/", "sock">>)

----------------------------------------------------------------------------
(* setDefaults *)

\* paths.data
pathsData == <<"/", "data">>

\* path.join(dir, name) for an absolute dir
PathJoin(dir, name) == PathResolve(dir \o <<"/">> \o name)

\* PickLog where --verbose does not override a given --log
PickLogKeepsLog(args, env) ==
  IF "verbose" \in DOMAIN args /\ args["verbose"] = TRUE
     /\ "log" \notin DOMAIN args
  THEN Put(args, "log", <<"trace">>)
  ELSE IF "log" \notin DOMAIN args /\ ~Falsy(env) /\ env.s \in LogLevel
  THEN Put(args, "log", env.s)
  ELSE args

\* The verbose and log flags and the environment variable: --verbose sets
\* log to trace, else an unset log takes a recognized LOG_LEVEL
PickLog(args, env) ==
  IF "verbose" \in DOMAIN args /\ args["verbose"] = TRUE
  THEN Put(args, "log", <<"trace">>)
  ELSE IF "log" \notin DOMAIN args /\ ~Falsy(env) /\ env.s \in LogLevel
  THEN Put(args, "log", env.s)
  ELSE args

\* The switch on args.log: logger.level and args.verbose
SyncLog(args, level) ==
  IF "log" \notin DOMAIN args THEN [args |-> args, level |-> level]
  ELSE CASE args["log"] = <<"trace">> ->
              [args |-> Put(args, "verbose", TRUE), level |-> "Trace"]
         [] args["log"] = <<"debug">> ->
              [args |-> Put(args, "verbose", FALSE), level |-> "Debug"]
         [] args["log"] = <<"info">> ->
              [args |-> Put(args, "verbose", FALSE), level |-> "Info"]
         [] args["log"] = <<"warn">> ->
              [args |-> Put(args, "verbose", FALSE), level |-> "Warning"]
         [] args["log"] = <<"error">> ->
              [args |-> Put(args, "verbose", FALSE), level |-> "Error"]
         [] OTHER -> [args |-> args, level |-> level]

\* setDefaults after copyOldMacOSDataDir: the directories, then the log level
Defaults(args, env, level) ==
  LET a1 == IF "user-data-dir" \notin DOMAIN args
            THEN Put(args, "user-data-dir", pathsData) ELSE args
      a2 == IF "extensions-dir" \notin DOMAIN a1
            THEN Put(a1, "extensions-dir",
                     PathJoin(a1["user-data-dir"], <<"extensions">>))
            ELSE a1
      a3 == PickLog(a2, env)
      synced == SyncLog(a3, level)
  IN [args |-> synced.args,
      env |-> IF "log" \in DOMAIN a3 THEN Def(a3["log"]) ELSE env,
      level |-> synced.level]

MaxDefArgs == 2

DefTokens ==
  { Long("verbose"), LongEq("log", <<"debug">>), LongEq("log", <<"trace">>),
    LongEq("user-data-dir", <<"/", "d">>), LongEq("extensions-dir", <<"x">>) }

LogLevelValues ==
  {Undef, Def(<<>>), Def(<<"bogus">>), Def(<<"trace">>), Def(<<"warn">>)}

DefInit ==
  /\ dargs \in Records(DefTokens, MaxDefArgs, [configFile |-> FALSE])
  /\ envLogLevel \in LogLevelValues
  /\ platform \in {"linux", "darwin"}
  /\ dataDir \in BOOLEAN
  /\ oldDataDir \in BOOLEAN
  /\ sdpc = "start"
  /\ sdArgs = NoArgs
  /\ loggerLevel = "Info"
  /\ ParseIdle /\ BindIdle /\ InstIdle /\ CfgIdle

\* The rest of setDefaults once copyOldMacOSDataDir has returned
SdFinish ==
  LET d == Defaults(dargs, envLogLevel, loggerLevel) IN
  /\ sdpc' = "done"
  /\ sdArgs' = d.args
  /\ envLogLevel' = d.env
  /\ loggerLevel' = d.level

\* setDefaults up to the first suspension inside copyOldMacOSDataDir
SdBegin ==
  /\ sdpc = "start"
  /\ IF "user-data-dir" \in DOMAIN dargs \/ platform # "darwin"
     THEN SdFinish
     ELSE sdpc' = "checkData" /\ UNCHANGED <<sdArgs, envLogLevel, loggerLevel>>
  /\ UNCHANGED <<dargs, platform, dataDir, oldDataDir,
                 parseVars, bindVars, instVars, cfgVars>>

\* await fs.pathExists(paths.data)
SdCheckData ==
  /\ sdpc = "checkData"
  /\ IF dataDir THEN SdFinish
     ELSE sdpc' = "checkOld" /\ UNCHANGED <<sdArgs, envLogLevel, loggerLevel>>
  /\ UNCHANGED <<dargs, platform, dataDir, oldDataDir,
                 parseVars, bindVars, instVars, cfgVars>>

\* await fs.pathExists(oldDataDir)
SdCheckOld ==
  /\ sdpc = "checkOld"
  /\ IF oldDataDir
     THEN sdpc' = "copy" /\ UNCHANGED <<sdArgs, envLogLevel, loggerLevel>>
     ELSE SdFinish
  /\ UNCHANGED <<dargs, platform, dataDir, oldDataDir,
                 parseVars, bindVars, instVars, cfgVars>>

\* await fs.copy(oldDataDir, paths.data): it succeeds or its error propagates
SdCopy ==
  /\ sdpc = "copy"
  /\ \/ dataDir' = TRUE /\ SdFinish
     \/ /\ sdpc' = "error"
        /\ UNCHANGED <<dataDir, sdArgs, envLogLevel, loggerLevel>>
  /\ UNCHANGED <<dargs, platform, oldDataDir, parseVars, bindVars, instVars, cfgVars>>

DefNext == SdBegin \/ SdCheckData \/ SdCheckOld \/ SdCopy

SpecDefaults == DefInit /\ [][DefNext]_vars

Has(args, key) == key \in DOMAIN args

\* args.log, or the empty string when it is unset
LogOf(args) == IF Has(args, "log") THEN args["log"] ELSE <<>>

\* C9: verbose flag > log flag > LOG_LEVEL > unset.  With verbose the
\* resulting log is trace; else a given log is kept; else log is LOG_LEVEL
\* when that is a recognized level and stays unset otherwise.  In the result
\* verbose is true exactly when log is trace, false for any other level and
\* untouched when log is unset; and a set log is LOG_LEVEL afterwards.
C9_VerbosityPrecedence ==
  [][sdpc' = "done" =>
       /\ IF Has(dargs, "verbose") THEN LogOf(sdArgs') = <<"trace">>
          ELSE IF Has(dargs, "log") THEN LogOf(sdArgs') = dargs["log"]
          ELSE IF envLogLevel.def /\ envLogLevel.s \in LogLevel
               THEN LogOf(sdArgs') = envLogLevel.s
               ELSE ~Has(sdArgs', "log")
       /\ IF Has(sdArgs', "log")
          THEN /\ Has(sdArgs', "verbose")
               /\ sdArgs'["verbose"] = (sdArgs'["log"] = <<"trace">>)
               /\ envLogLevel' = Def(sdArgs'["log"])
          ELSE /\ Has(sdArgs', "verbose") = Has(dargs, "verbose")
               /\ envLogLevel' = envLogLevel]_vars

\* C9 witness: both flags were given, and verbose won over --log=debug
C9_Witness ==
  /\ sdpc = "done"
  /\ Has(dargs, "verbose") /\ Has(dargs, "log") /\ dargs["log"] = <<"debug">>
  /\ LogOf(sdArgs) = <<"trace">> /\ sdArgs["verbose"] = TRUE
  /\ envLogLevel = Def(<<"trace">>)

----------------------------------------------------------------------------
(* readConfigFile *)

\* A file: absent, or the value yaml.safeLoad gives for its text: nothing
\* ("empty"), a bare scalar ("scalar"), or a mapping, the list of its entries
Absent == [kind |-> "absent", doc |-> <<>>]

Mapping(entries) == [kind |-> "mapping", doc |-> entries]

\* The values of a mapping: a boolean, or a scalar by its text
Bool(b) == [t |-> "bool", b |-> b, s |-> <<>>]

Text(s) == [t |-> "text", b |-> FALSE, s |-> s]

Entry(k, v) == [key |-> k, val |-> v]

\* generatePassword()
Passwords == {<<"pw1">>, <<"pw2">>}

\* defaultConfigFile() with the generated password
defaultConfigFile(password) ==
  Mapping(<< Entry(NameChars["bind-addr"],
                   Text(<<"127.0.0.1", ":", "8", "0", "8", "0">>)),
             Entry(NameChars["auth"], Text(<<"password">>)),
             Entry(NameChars["password"], Text(password)),
             Entry(NameChars["cert"], Bool(FALSE)) >>)

\* `${opt}`
Interpolate(v) ==
  IF v.t = "bool" THEN (IF v.b THEN <<"true">> ELSE <<"false">>) ELSE v.s

\* Object.entries(config).map(...): `--name` for true, `--name=value`
\* for anything else
configFileArgv(doc) ==
  [j \in 1..Len(doc) |->
     IF doc[j].val.t = "bool" /\ doc[j].val.b
     THEN <<"-", "-">> \o doc[j].key
     ELSE <<"-", "-">> \o doc[j].key \o <<"=">> \o Interpolate(doc[j].val)]

\* readConfigFile from the content read: the error, or the record with the
\* config path
LoadConfig(content, path) ==
  IF content.kind = "absent" THEN [err |-> "ENOENT", args |-> NoArgs]
  ELSE IF content.kind # "mapping" THEN [err |-> "invalid", args |-> NoArgs]
  ELSE LET st == parse(configFileArgv(content.doc), [configFile |-> TRUE]) IN
       IF st.err # "none" THEN [err |-> st.err, args |-> NoArgs]
       ELSE [err |-> "none", args |-> Put(st.args, "config", path)]

ArgPath == <<"/", "arg.yaml">>

EnvPath == <<"/", "env.yaml">>

\* path.join(paths.config, "config.yaml")
DefaultPath == <<"/", "config", "/", "config.yaml">>

Paths == {ArgPath, EnvPath, DefaultPath}

\* The number of calls of readConfigFile, which may overlap
NumCalls == 2

Calls == 1..NumCalls

UserFiles ==
  { Mapping(<< Entry(NameChars["verbose"], Bool(FALSE)),
               Entry(NameChars["cert"], Bool(FALSE)) >>),
    Mapping(<< Entry(NameChars["open"], Bool(TRUE)),
               Entry(NameChars["password"], Text(<<"a", "=", "b">>)) >>),
    [kind |-> "empty", doc |-> <<>>] }

NoOut == [err |-> "pending", args |-> NoArgs]

CfgInit ==
  /\ files \in [Paths -> {Absent} \cup UserFiles]
  /\ envConfig \in {Undef, Def(EnvPath)}
  /\ rc \in [Calls -> {[pc |-> "start", configPath |-> a, exists |-> FALSE,
                        doc |-> Absent, read |-> Absent, out |-> NoOut] :
                         a \in {Undef, Def(ArgPath)}}]
  /\ ParseIdle /\ BindIdle /\ InstIdle /\ DefIdle

\* The path: the argument, else $CODE_SERVER_CONFIG, else the default
RcBegin(r) ==
  /\ rc[r].pc = "start"
  /\ rc' = [rc EXCEPT ![r].pc = "exists",
                      ![r].configPath =
                         IF ~Falsy(@) THEN @
                         ELSE IF ~Falsy(envConfig) THEN envConfig
                         ELSE Def(DefaultPath)]
  /\ UNCHANGED <<files, envConfig, parseVars, bindVars, instVars, defVars>>

\* RcExists writing the default file whether or not a file was found
RcExistsAlwaysWrites(r) ==
  /\ rc[r].pc = "exists"
  /\ LET found == files[rc[r].configPath.s] # Absent IN
       rc' = [rc EXCEPT ![r].exists = found, ![r].pc = "generate"]
  /\ UNCHANGED <<files, envConfig, parseVars, bindVars, instVars, defVars>>

\* await fs.pathExists(configPath)
RcExists(r) ==
  /\ rc[r].pc = "exists"
  /\ LET found == files[rc[r].configPath.s] # Absent IN
       rc' = [rc EXCEPT ![r].exists = found,
                        ![r].pc = IF found THEN "read" ELSE "generate"]
  /\ UNCHANGED <<files, envConfig, parseVars, bindVars, instVars, defVars>>

\* await defaultConfigFile()
RcGenerate(r) ==
  /\ rc[r].pc = "generate"
  /\ \E pw \in Passwords :
       rc' = [rc EXCEPT ![r].doc = defaultConfigFile(pw), ![r].pc = "write"]
  /\ UNCHANGED <<files, envConfig, parseVars, bindVars, instVars, defVars>>

\* await fs.outputFile(configPath, ...)
RcWrite(r) ==
  /\ rc[r].pc = "write"
  /\ files' = [files EXCEPT ![rc[r].configPath.s] = rc[r].doc]
  /\ rc' = [rc EXCEPT ![r].pc = "read"]
  /\ UNCHANGED <<envConfig, parseVars, bindVars, instVars, defVars>>

\* await fs.readFile(configPath), then yaml.safeLoad, the conversion to flags
\* and parse
RcRead(r) ==
  /\ rc[r].pc = "read"
  /\ LET content == files[rc[r].configPath.s] IN
       rc' = [rc EXCEPT ![r].read = content,
                        ![r].out = LoadConfig(content, rc[r].configPath.s),
                        ![r].pc = "done"]
  /\ UNCHANGED <<files, envConfig, parseVars, bindVars, instVars, defVars>>

CfgNext ==
  \E r \in Calls :
    RcBegin(r) \/ RcExists(r) \/ RcGenerate(r) \/ RcWrite(r) \/ RcRead(r)

SpecConfig == CfgInit /\ [][CfgNext]_vars

\* C5: a file changes only by the write of a call whose own check found no
\* file at its path, which writes the default document; a call whose check
\* finds a file goes on to read it and never writes, so an existing file,
\* user-written or generated, keeps its content.
C5_WriteOnlyWhenAbsent ==
  [][/\ \A p \in Paths :
          files'[p] # files[p] =>
            \E r \in Calls :
               /\ rc[r].pc = "write" /\ rc'[r].pc = "read"
               /\ rc[r].configPath.s = p
               /\ ~rc[r].exists
               /\ \E pw \in Passwords : files'[p] = defaultConfigFile(pw)
     /\ \A r \in Calls :
          (rc[r].pc = "exists" /\ rc'[r].pc # "exists"
             /\ files[rc[r].configPath.s] # Absent) =>
            /\ rc'[r].pc = "read" /\ rc'[r].exists
     /\ \A r \in Calls :
          (rc[r].exists /\ rc'[r] # rc[r]) =>
            /\ files' = files /\ rc'[r].pc = "done"
            /\ rc'[r].read = files[rc[r].configPath.s]]_vars

\* C5 witness: one call generated the file, and a second call on the same
\* path found it, read it, and left it as generated
C5_Witness ==
  \E r1, r2 \in Calls :
    /\ rc[r1].pc = "done" /\ ~rc[r1].exists
    /\ rc[r2].pc = "done" /\ rc[r2].exists
    /\ rc[r1].configPath = rc[r2].configPath
    /\ files[rc[r1].configPath.s] = rc[r1].doc
    /\ rc[r2].read = rc[r1].doc

\* C10: an entry of the mapping whose value is false never yields its option
\* set in the record readConfigFile returns, for a Boolean option as for an
\* OptionalString option.
C10_FalseNeverTrue ==
  \A r \in Calls :
    (rc[r].pc = "done" /\ rc[r].out.err = "none") =>
      \A j \in 1..Len(rc[r].read.doc) :
        LET e == rc[r].read.doc[j] IN
        (e.val = Bool(FALSE)) =>
          \A k \in LongKey(e.key) :
            options[k].type \in {"boolean", "OptionalString"}
              => k \notin DOMAIN rc[r].out.args

====
